---- MODULE Spec2Model ----
(***************************************************************************)
(* Model of the two command-line pipelines of LiveScotlandYard:            *)
(*   scripts/combine_board_images.py  (board fusion)                       *)
(*   scripts/render_node_overlay.py   (node overlay)                       *)
(*                                                                         *)
(* Floating-point arithmetic written in the scripts themselves (Python     *)
(* float = IEEE binary64, numpy float32 = IEEE binary32) is modelled bit   *)
(* for bit: correctly rounded, round-to-nearest-even, on arbitrary         *)
(* precision mantissas.  Exponent range is unbounded (no overflow,         *)
(* no subnormals); the inputs drawn here stay far from both.               *)
(***************************************************************************)
EXTENDS Integers, Sequences, FiniteSets, TLC

(***************************************************************************)
(* Natural numbers of any size: little-endian sequences of limbs.          *)
(***************************************************************************)
LimbBits == 15
Base == 2^LimbBits

Min(a, b) == IF a <= b THEN a ELSE b
Max(a, b) == IF a >= b THEN a ELSE b
Abs(n) == IF n < 0 THEN -n ELSE n

SetMax(S) == CHOOSE x \in S : \A y \in S : y <= x

\* limb i of a, 0 beyond its length
Limb(a, i) == IF i >= 1 /\ i <= Len(a) THEN a[i] ELSE 0

\* without leading zero limbs
BTrim(a) ==
  IF a = <<>> THEN <<>>
  ELSE SubSeq(a, 1, SetMax({0} \cup {i \in 1..Len(a) : a[i] # 0}))

\* for 0 <= n < 2^31
BFromInt(n) == BTrim(<<n % Base, (n \div Base) % Base, n \div (Base * Base)>>)

\* for a < 2^31
BToInt(a) == Limb(a, 1) + Base * Limb(a, 2) + Base * Base * Limb(a, 3)

\* the carry into limb i of a sum whose limb sums are g: a lower limb
\* generates one and every limb between propagates it
CarryIn(g, i) ==
  \E j \in 1..(i - 1) : g[j] >= Base /\ \A k \in (j + 1)..(i - 1) : g[k] = Base - 1

AddLimbs(g) ==
  BTrim([i \in 1..Len(g) |-> (g[i] + IF CarryIn(g, i) THEN 1 ELSE 0) % Base])

BAdd(a, b) ==
  IF a = <<>> THEN b
  ELSE IF b = <<>> THEN a
  ELSE AddLimbs([i \in 1..(Max(Len(a), Len(b)) + 1) |-> Limb(a, i) + Limb(b, i)])

\* the borrow from limb i of a difference whose limb differences are d
BorrowIn(d, i) ==
  \E j \in 1..(i - 1) : d[j] < 0 /\ \A k \in (j + 1)..(i - 1) : d[k] = 0

SubLimbs(d) ==
  BTrim([i \in 1..Len(d) |-> (d[i] - IF BorrowIn(d, i) THEN 1 ELSE 0) % Base])

\* a - b for a >= b
BSub(a, b) ==
  IF b = <<>> THEN a ELSE SubLimbs([i \in 1..Len(a) |-> a[i] - Limb(b, i)])

\* -1, 0, 1 as a < b, a = b, a > b (both trimmed)
BCmpAt(a, b, D) ==
  IF D = {} THEN 0 ELSE IF a[SetMax(D)] > b[SetMax(D)] THEN 1 ELSE -1

BCmp(a, b) ==
  IF Len(a) > Len(b) THEN 1
  ELSE IF Len(a) < Len(b) THEN -1
  ELSE BCmpAt(a, b, {i \in 1..Len(a) : a[i] # b[i]})

\* a * n for 0 <= n < Base: the low halves of the limb products plus the
\* high halves one limb up
BMulSmall(a, n) ==
  IF a = <<>> \/ n = 0 THEN <<>>
  ELSE IF n = 1 THEN a
  ELSE AddLimbs([i \in 1..(Len(a) + 2) |->
              ((Limb(a, i) * n) % Base) + ((Limb(a, i - 1) * n) \div Base)])

\* a * Base^k
BShiftLimbs(a, k) == IF a = <<>> THEN a ELSE [i \in 1..k |-> 0] \o a

\* a * b, one limb of b per step
RECURSIVE BMulFrom(_, _, _)
BMulFrom(a, b, j) ==
  IF j > Len(b) THEN <<>>
  ELSE BAdd(BShiftLimbs(BMulSmall(a, b[j]), j - 1), BMulFrom(a, b, j + 1))

BMul(a, b) == BMulFrom(a, b, 1)

\* a * 2^k
BShl(a, k) == BShiftLimbs(BMulSmall(a, 2^(k % LimbBits)), k \div LimbBits)

\* floor(a / 2^t) for 0 <= t < LimbBits
BShrBits(a, t) ==
  BTrim([i \in 1..Len(a) |->
           (a[i] \div 2^t) + (Limb(a, i + 1) % 2^t) * 2^(LimbBits - t)])

\* floor(a / 2^k)
BShr(a, k) == BShrBits(SubSeq(a, k \div LimbBits + 1, Len(a)), k % LimbBits)

IntBitLen(n) == Cardinality({k \in 0..(2 * LimbBits) : 2^k <= n})

BitLen(a) == IF a = <<>> THEN 0 ELSE LimbBits * (Len(a) - 1) + IntBitLen(a[Len(a)])

\* bit i (0 = least significant) of a
BBit(a, i) == (Limb(a, i \div LimbBits + 1) \div 2^(i % LimbBits)) % 2

\* a + 1
BInc(a) == BAdd(a, <<1>>)

\* Long division (Knuth's algorithm D).  The divisor b is normalised: its
\* top limb is at least Base / 2, so the digit estimated from the two top
\* limbs of the running remainder r2 is the quotient digit or at most 2 more.
DigitFrom(r2, b, est) ==
  IF est = 0 THEN 0
  ELSE IF BCmp(BMulSmall(b, est), r2) <= 0 THEN est
  ELSE IF BCmp(BMulSmall(b, est - 1), r2) <= 0 THEN est - 1
  ELSE est - 2

BDigit(r2, b) ==
  DigitFrom(r2, b,
            Min(Base - 1,
                ((Limb(r2, Len(b) + 1) * Base) + Limb(r2, Len(b))) \div b[Len(b)]))

RECURSIVE BDivModFrom(_, _, _, _, _)
BDivDigit(a, b, i, q, r2, d) ==
  IF d = 0 THEN BDivModFrom(a, b, i - 1, <<0>> \o q, r2)
  ELSE BDivModFrom(a, b, i - 1, <<d>> \o q, BSub(r2, BMulSmall(b, d)))

BDivStep(a, b, i, q, r2) ==
  IF Len(r2) < Len(b) THEN BDivModFrom(a, b, i - 1, <<0>> \o q, r2)
  ELSE BDivDigit(a, b, i, q, r2, BDigit(r2, b))

\* limbs i..1 of a are still to be brought down, r is the remainder so far
BDivModFrom(a, b, i, q, r) ==
  IF i = 0 THEN <<BTrim(q), r>>
  ELSE BDivStep(a, b, i, q, BTrim(<<a[i]>> \o r))

BDivNormal(a, b) ==
  IF Len(a) < Len(b) THEN <<<<>>, a>>
  ELSE BDivModFrom(a, b, Len(a) - Len(b) + 1, <<>>,
                   SubSeq(a, Len(a) - Len(b) + 2, Len(a)))

BDivShifted(a, b, sh) == BDivNormal(BShl(a, sh), BShl(b, sh))

\* <<quotient, whether the remainder is nonzero>> of a by b > 0
BDivMod(a, b) == BDivShifted(a, b, LimbBits * Len(b) - BitLen(b))

(***************************************************************************)
(* Exact dyadic values [s, m, e] = (-1)^s * m * 2^e and their rounding to  *)
(* a float of P mantissa bits.  A float is canonical: m has exactly P      *)
(* bits, or the value is Zero.  NaN is what numpy's 0/0 yields.            *)
(***************************************************************************)
Zero == [s |-> 0, m |-> <<>>, e |-> 0]
NaN == [s |-> 2, m |-> <<>>, e |-> 0]
IsNaN(x) == x.s = 2
IsZero(x) == x.s # 2 /\ x.m = <<>>

XInt(n) == IF n = 0 THEN Zero ELSE [s |-> IF n < 0 THEN 1 ELSE 0, m |-> BFromInt(Abs(n)), e |-> 0]

XNeg(x) == IF IsNaN(x) \/ IsZero(x) THEN x ELSE [x EXCEPT !.s = 1 - x.s]

\* the sum of two nonzero values brought to the common exponent e
XAddAligned(sx, sy, e, mx, my, c) ==
  IF sx = sy THEN [s |-> sx, m |-> BAdd(mx, my), e |-> e]
  ELSE IF c = 0 THEN Zero
  ELSE IF c > 0 THEN [s |-> sx, m |-> BSub(mx, my), e |-> e]
  ELSE [s |-> sy, m |-> BSub(my, mx), e |-> e]

XAddShifted(sx, sy, e, mx, my) == XAddAligned(sx, sy, e, mx, my, BCmp(mx, my))

XAddAt(x, y, e) == XAddShifted(x.s, y.s, e, BShl(x.m, x.e - e), BShl(y.m, y.e - e))

XAdd(x, y) ==
  IF IsNaN(x) \/ IsNaN(y) THEN NaN
  ELSE IF IsZero(x) THEN y
  ELSE IF IsZero(y) THEN x
  ELSE XAddAt(x, y, Min(x.e, y.e))

XSub(x, y) == XAdd(x, XNeg(y))

XMul(x, y) ==
  IF IsNaN(x) \/ IsNaN(y) THEN NaN
  ELSE IF IsZero(x) \/ IsZero(y) THEN Zero
  ELSE [s |-> (x.s + y.s) % 2, m |-> BMul(x.m, y.m), e |-> x.e + y.e]

\* -1, 0, 1: the sign of x
XSign(x) == IF IsZero(x) THEN 0 ELSE IF x.s = 1 THEN -1 ELSE 1

\* comparisons with a NaN are false, as in IEEE 754
XLe(x, y) == ~IsNaN(x) /\ ~IsNaN(y) /\ XSign(XSub(x, y)) <= 0
XLt(x, y) == ~IsNaN(x) /\ ~IsNaN(y) /\ XSign(XSub(x, y)) < 0
XEq(x, y) == ~IsNaN(x) /\ ~IsNaN(y) /\ XSign(XSub(x, y)) = 0

\* round-to-nearest, ties-to-even, to P mantissa bits: k bits are cut off,
\* q is the kept part, c compares the cut part with half a unit of q
RoundCarry(P, x, k, q1) ==
  IF BitLen(q1) > P
  THEN [s |-> x.s, m |-> BShr(q1, 1), e |-> x.e + k + 1]
  ELSE [s |-> x.s, m |-> q1, e |-> x.e + k]

RoundTie(P, x, k, q, c) ==
  RoundCarry(P, x, k,
             IF c > 0 \/ (c = 0 /\ BBit(q, 0) = 1) THEN BInc(q) ELSE q)

RoundCut(P, x, k, q) ==
  RoundTie(P, x, k, q, BCmp(BSub(x.m, BShl(q, k)), BShl(<<1>>, k - 1)))

RoundLen(P, x, L) ==
  IF L <= P THEN [s |-> x.s, m |-> BShl(x.m, P - L), e |-> x.e - (P - L)]
  ELSE RoundCut(P, x, L - P, BShr(x.m, L - P))

Round(P, x) == IF IsNaN(x) \/ IsZero(x) THEN x ELSE RoundLen(P, x, BitLen(x.m))

FAdd(P, a, b) == Round(P, XAdd(a, b))
FSub(P, a, b) == Round(P, XSub(a, b))
FMul(P, a, b) == Round(P, XMul(a, b))

\* a / b, correctly rounded, for b # 0 (what a zero divisor does is the
\* caller's: Python raises, numpy yields NaN): P + 2 quotient bits and a
\* sticky bit decide the rounding
FDivQuot(P, x, y, qr) ==
  Round(P, [s |-> (x.s + y.s) % 2,
            m |-> BAdd(BAdd(qr[1], qr[1]), IF qr[2] = <<>> THEN <<>> ELSE <<1>>),
            e |-> x.e - y.e - (P + 2) - 1])

FDivCanon(P, x, y) == FDivQuot(P, x, y, BDivMod(BShl(x.m, P + 2), y.m))

FDiv(P, a, b) ==
  IF IsNaN(a) \/ IsNaN(b) \/ IsZero(b) THEN NaN
  ELSE IF IsZero(a) THEN Zero
  ELSE FDivCanon(P, Round(P, a), Round(P, b))

FInt(P, n) == Round(P, XInt(n))

\* floor of |x| as an integer, for values known to fit
XTrunc(x) ==
  IF IsZero(x) THEN 0
  ELSE IF x.e >= 0 THEN BToInt(BShl(x.m, x.e))
  ELSE BToInt(BShr(x.m, -x.e))

\* what a call does: it raises e, or it returns t
Raise(e) == [err |-> e, t |-> <<>>]
Return(t) == [err |-> "none", t |-> t]

(***************************************************************************)
(* render_node_overlay.py                                                  *)
(***************************************************************************)
\* Python float: IEEE binary64, 53 mantissa bits
DoubleBits == 53
F64(n) == FInt(DoubleBits, n)

\* bounds of the node-overlay inputs
MaxNodes == 2
Points == {<<0, 0>>, <<100, 0>>, <<100, 50>>, <<100, 100>>, <<7, 7>>}
\* a board file: what cv2.imread makes of it, None (not loadable) or an image
Board(w, h) == [loadable |-> TRUE, width |-> w, height |-> h]
NoBoard == [loadable |-> FALSE, width |-> 0, height |-> 0]
Boards == {NoBoard, Board(29, 29), Board(1000, 100), Board(1000, 1000)}
Margins == {0, 12, 500}
FitModes == {"uniform", "stretch", "raw"}

\* the entries of a nodes JSON file: ids listed in descending order
NodeFiles ==
  UNION {{[i \in 1..k |-> [id |-> k - i + 1, x |-> F64(p[i][1]), y |-> F64(p[i][2])]] :
            p \in [1..k -> Points]} : k \in 0..MaxNodes}

\* nodes.sort(key=lambda n: n.node_id): stable insertion by id
RECURSIVE InsertById(_, _)
InsertById(s, n) ==
  IF s = <<>> THEN <<n>>
  ELSE IF s[Len(s)].id <= n.id THEN Append(s, n)
  ELSE Append(InsertById(SubSeq(s, 1, Len(s) - 1), n), s[Len(s)])

RECURSIVE SortById(_)
SortById(s) ==
  IF s = <<>> THEN s
  ELSE InsertById(SortById(SubSeq(s, 1, Len(s) - 1)), s[Len(s)])

load_nodes(data) == SortById(data)

PyMin(a, b) == IF XLt(b, a) THEN b ELSE a
PyMax(a, b) == IF XLt(a, b) THEN b ELSE a

RECURSIVE SeqMin(_)
SeqMin(s) == IF Len(s) = 1 THEN s[1] ELSE PyMin(s[1], SeqMin(Tail(s)))

RECURSIVE SeqMax(_)
SeqMax(s) == IF Len(s) = 1 THEN s[1] ELSE PyMax(s[1], SeqMax(Tail(s)))

\* compute_transform, mode "uniform" (the else branch), from uniform_scale on
UniformOffsets(width, height, min_x, min_y, src_width, src_height, uniform_scale) ==
  Return(<<uniform_scale, uniform_scale,
           FSub(DoubleBits,
                FDiv(DoubleBits,
                     FSub(DoubleBits, F64(width), FMul(DoubleBits, uniform_scale, src_width)),
                     F64(2)),
                FMul(DoubleBits, uniform_scale, min_x)),
           FSub(DoubleBits,
                FDiv(DoubleBits,
                     FSub(DoubleBits, F64(height), FMul(DoubleBits, uniform_scale, src_height)),
                     F64(2)),
                FMul(DoubleBits, uniform_scale, min_y))>>)

\* a slip: the larger of the two scales
UniformTransform_Max(width, height, min_x, min_y, src_width, src_height, usable_w, usable_h) ==
  UniformOffsets(width, height, min_x, min_y, src_width, src_height,
                 PyMax(FDiv(DoubleBits, usable_w, src_width),
                       FDiv(DoubleBits, usable_h, src_height)))

UniformTransform(width, height, min_x, min_y, src_width, src_height, usable_w, usable_h) ==
  UniformOffsets(width, height, min_x, min_y, src_width, src_height,
                 PyMin(FDiv(DoubleBits, usable_w, src_width),
                       FDiv(DoubleBits, usable_h, src_height)))

\* a slip: the offset forgets the bounding box's corner
StretchOffsets_NoMin(margin, min_x, min_y, scale_x, scale_y) ==
  Return(<<scale_x, scale_y, margin, margin>>)

\* compute_transform, mode "stretch", from scale_x and scale_y on
StretchOffsets(margin, min_x, min_y, scale_x, scale_y) ==
  Return(<<scale_x, scale_y,
           FSub(DoubleBits, margin, FMul(DoubleBits, scale_x, min_x)),
           FSub(DoubleBits, margin, FMul(DoubleBits, scale_y, min_y))>>)

StretchTransform(margin, min_x, min_y, src_width, src_height, usable_w, usable_h) ==
  StretchOffsets(margin, min_x, min_y,
                 FDiv(DoubleBits, usable_w, src_width),
                 FDiv(DoubleBits, usable_h, src_height))

\* compute_transform from the margin check on.  A Python float division by
\* 0.0 raises ZeroDivisionError.
TransformOfSpans(width, height, margin, mode, min_x, min_y, src_width, src_height, usable_w, usable_h) ==
  IF XLe(usable_w, Zero) \/ XLe(usable_h, Zero) THEN Raise("ValueError")
  ELSE IF mode = "raw" THEN Return(<<F64(1), F64(1), Zero, Zero>>)
  ELSE IF IsZero(src_width) \/ IsZero(src_height) THEN Raise("ZeroDivisionError")
  ELSE IF mode = "stretch"
       THEN StretchTransform(margin, min_x, min_y, src_width, src_height, usable_w, usable_h)
       ELSE UniformTransform(width, height, min_x, min_y, src_width, src_height,
                             usable_w, usable_h)

TransformOfBounds(width, height, margin, mode, min_x, max_x, min_y, max_y) ==
  TransformOfSpans(width, height, margin, mode, min_x, min_y,
                   FSub(DoubleBits, max_x, min_x),
                   FSub(DoubleBits, max_y, min_y),
                   FSub(DoubleBits, F64(width), FMul(DoubleBits, F64(2), margin)),
                   FSub(DoubleBits, F64(height), FMul(DoubleBits, F64(2), margin)))

NodeXs(nodes) == [i \in 1..Len(nodes) |-> nodes[i].x]
NodeYs(nodes) == [i \in 1..Len(nodes) |-> nodes[i].y]

\* compute_transform: [err, t], t = <<scale_x, scale_y, offset_x, offset_y>>.
\* width and height are ints, margin is a float.  xs.min() of an empty
\* array raises ValueError.
compute_transform(nodes, width, height, margin, mode) ==
  IF nodes = <<>> THEN Raise("ValueError")
  ELSE TransformOfBounds(width, height, margin, mode,
                         SeqMin(NodeXs(nodes)), SeqMax(NodeXs(nodes)),
                         SeqMin(NodeYs(nodes)), SeqMax(NodeYs(nodes)))

transform_nodes(nodes, scale_x, scale_y, offset_x, offset_y) ==
  [i \in 1..Len(nodes) |->
     [id |-> nodes[i].id,
      x |-> FAdd(DoubleBits, FMul(DoubleBits, nodes[i].x, scale_x), offset_x),
      y |-> FAdd(DoubleBits, FMul(DoubleBits, nodes[i].y, scale_y), offset_y)]]

\* int(round(v)) of draw_overlay: Python rounds halves to even.  fl is the
\* integer part of |v|, twice the sign of 2 * frac(|v|) - 1
RoundHalfUp(v, fl, twice) ==
  IF twice > 0 \/ (twice = 0 /\ fl % 2 = 1) THEN fl + 1 ELSE fl

RoundFrac(v, fl, frac) == RoundHalfUp(v, fl, XSign(XSub(XAdd(frac, frac), XInt(1))))

RoundMag(v, fl) == RoundFrac(v, fl, XSub([v EXCEPT !.s = 0], XInt(fl)))

RoundHalfEven(v) ==
  IF IsZero(v) THEN 0
  ELSE IF v.s = 1 THEN -RoundMag(v, XTrunc(v)) ELSE RoundMag(v, XTrunc(v))

\* draw_overlay: the circle centres and labels drawn on a copy of the board
draw_overlay(nodes) ==
  [i \in 1..Len(nodes) |->
     [label |-> nodes[i].id,
      center |-> <<RoundHalfEven(nodes[i].x), RoundHalfEven(nodes[i].y)>>]]

(***************************************************************************)
(* combine_board_images.py: images and the image operations                *)
(***************************************************************************)
\* numpy float32: IEEE binary32, 24 mantissa bits
FloatBits == 24
F32(n) == FInt(FloatBits, n)

\* x * 2^k
XScale(x, k) == IF IsNaN(x) \/ IsZero(x) THEN x ELSE [x EXCEPT !.e = @ + k]

\* bounds of the images: ImgH rows, ImgW columns of <<blue, green, red>>
ImgH == 2
ImgW == 3
Colours == {<<0, 0, 0>>, <<255, 255, 255>>, <<90, 100, 110>>, <<200, 30, 60>>}
Shapes == {"uniform", "edge", "dot", "checker"}

InShape(shape, r, c) ==
  CASE shape = "uniform" -> FALSE
    [] shape = "edge" -> c = 1
    [] shape = "dot" -> r = 1 /\ c = 1
    [] shape = "checker" -> (r + c) % 2 = 0

Picture(shape, fg, bg) ==
  [r \in 1..ImgH |-> [c \in 1..ImgW |-> IF InShape(shape, r, c) THEN fg ELSE bg]]

Images == {Picture(shape, fg, bg) : shape \in Shapes, fg \in Colours, bg \in Colours}

Rows(img) == Len(img)
Cols(img) == Len(img[1])
IsUniform(img) == \A r \in 1..Rows(img), c \in 1..Cols(img) : img[r][c] = img[1][1]

\* cv2's default border, BORDER_REFLECT_101: index 0 is index 2, n + 1 is n - 1
Reflect101(i, n) ==
  IF n = 1 THEN 1
  ELSE IF i < 1 THEN 2 - i
  ELSE IF i > n THEN 2 * n - i
  ELSE i

At(img, r, c) == img[Reflect101(r, Rows(img))][Reflect101(c, Cols(img))]

\* n / d rounded to the nearest integer, halves to the even one (cvRound), d > 0
RoundDiv(n, d) ==
  IF 2 * (n % d) > d \/ (2 * (n % d) = d /\ (n \div d) % 2 = 1)
  THEN n \div d + 1
  ELSE n \div d

\* saturate_cast<uchar>, np.clip(..., 0, 255)
Clip(v) == Max(0, Min(255, v))

\* cv2.cvtColor(image, cv2.COLOR_BGR2GRAY): fixed point, 14 fractional bits
GrayOf(p) == (p[1] * 1868 + p[2] * 9617 + p[3] * 4899 + 8192) \div 16384

cvtColor_BGR2GRAY(image) ==
  [r \in 1..Rows(image) |-> [c \in 1..Cols(image) |-> GrayOf(image[r][c])]]

\* gray.astype(np.float32) / 255.0
GrayToFloat(gray) ==
  [r \in 1..Rows(gray) |-> [c \in 1..Cols(gray) |->
     FDiv(FloatBits, F32(gray[r][c]), F32(255))]]

\* cv2.Laplacian(gray, cv2.CV_32F): the aperture-1 kernel 0 1 0 / 1 -4 1 / 0 1 0
LaplacianAt(gray, r, c) ==
  Round(FloatBits,
        XSub(XAdd(XAdd(At(gray, r - 1, c), At(gray, r + 1, c)),
                  XAdd(At(gray, r, c - 1), At(gray, r, c + 1))),
             XScale(gray[r][c], 2)))

Laplacian(gray) ==
  [r \in 1..Rows(gray) |-> [c \in 1..Cols(gray) |-> LaplacianAt(gray, r, c)]]

\* lap ** 2
Square(lap) ==
  [r \in 1..Rows(lap) |-> [c \in 1..Cols(lap) |-> FMul(FloatBits, lap[r][c], lap[r][c])]]

\* cv2.GaussianBlur(map, (0, 0), sigma) of a float map: a separable,
\* symmetric, normalised kernel of non-negative weights; the binomial
\* weights 1 2 1 / 4 stand for the Gaussian's
BlurRow(map, r, c) ==
  XAdd(XAdd(At(map, r, c - 1), At(map, r, c + 1)), XScale(At(map, r, c), 1))

BlurAt(map, r, c) ==
  XScale(XAdd(XAdd(BlurRow(map, r - 1, c), BlurRow(map, r + 1, c)),
              XScale(BlurRow(map, r, c), 1)),
         -4)

GaussianBlur(map) ==
  [r \in 1..Rows(map) |-> [c \in 1..Cols(map) |-> Round(FloatBits, BlurAt(map, r, c))]]

MapValues(map) == {map[r][c] : r \in 1..Rows(map), c \in 1..Cols(map)}
Least(vs) == CHOOSE v \in vs : \A u \in vs : XLe(v, u)
Greatest(vs) == CHOOSE v \in vs : \A u \in vs : XLe(u, v)

\* DBL_EPSILON
DblEpsilon == [s |-> 0, m |-> <<1>>, e |-> -52]

\* cv2.normalize(map, None, 0.0, 1.0, cv2.NORM_MINMAX): the least value
\* becomes 0 and the greatest 1; a map whose values differ by no more than
\* DBL_EPSILON is scaled by 0 and becomes 0 everywhere
NormalizeBetween(map, smin, smax) ==
  IF ~XLt(DblEpsilon, XSub(smax, smin))
  THEN [r \in 1..Rows(map) |-> [c \in 1..Cols(map) |-> Zero]]
  ELSE [r \in 1..Rows(map) |-> [c \in 1..Cols(map) |->
          FDiv(FloatBits, XSub(map[r][c], smin), XSub(smax, smin))]]

\* a slip: the map is not normalised
normalize_Skipped(map) == map

normalize(map) == NormalizeBetween(map, Least(MapValues(map)), Greatest(MapValues(map)))

\* the float32 nearest to the Python float 1e-6
Epsilon == Round(FloatBits, FDiv(DoubleBits, XInt(1), XInt(1000000)))

\* a slip: the epsilon is forgotten
AddEpsilon_Forgotten(map) == map

\* sharpness + 1e-6
AddEpsilon(map) ==
  [r \in 1..Rows(map) |-> [c \in 1..Cols(map) |-> FAdd(FloatBits, map[r][c], Epsilon)]]

\* sharp_primary / (sharp_primary + sharp_secondary); numpy's x / 0 is not an
\* error: 0 / 0 is NaN
WeightPrimary(sharp_primary, sharp_secondary) ==
  [r \in 1..Rows(sharp_primary) |-> [c \in 1..Cols(sharp_primary) |->
     FDiv(FloatBits, sharp_primary[r][c],
          FAdd(FloatBits, sharp_primary[r][c], sharp_secondary[r][c]))]]

\* 1.0 - weight_primary
WeightSecondary(weight_primary) ==
  [r \in 1..Rows(weight_primary) |-> [c \in 1..Cols(weight_primary) |->
     FSub(FloatBits, F32(1), weight_primary[r][c])]]

\* .astype(np.uint8) of a float32: the fraction is cut off (what NaN becomes
\* is the platform's; the weights of blend_images are never NaN)
ToUint8(x) == IF IsNaN(x) THEN 0 ELSE IF x.s = 1 THEN 0 ELSE XTrunc(x) % 256

\* a slip: the secondary's share is left out
BlendChannel_PrimaryOnly(p, s, wp, ws) == ToUint8(FMul(FloatBits, F32(p), wp))

\* primary_f * weight_primary + secondary_f * weight_secondary, as uint8
BlendChannel(p, s, wp, ws) ==
  ToUint8(FAdd(FloatBits, FMul(FloatBits, F32(p), wp), FMul(FloatBits, F32(s), ws)))

BlendSum(primary, secondary, weight_primary, weight_secondary) ==
  [r \in 1..Rows(primary) |-> [c \in 1..Cols(primary) |->
     [k \in 1..3 |-> BlendChannel(primary[r][c][k], secondary[r][c][k],
                                  weight_primary[r][c], weight_secondary[r][c])]]]

\* unsharp_mask's cv2.GaussianBlur(image, (0, 0), radius) of a uint8 image,
\* channel k: the same kernel, rounded to the nearest integer
BlurRow8(image, r, c, k) ==
  At(image, r, c - 1)[k] + 2 * At(image, r, c)[k] + At(image, r, c + 1)[k]

BlurAt8(image, r, c, k) ==
  RoundDiv(BlurRow8(image, r - 1, c, k) + 2 * BlurRow8(image, r, c, k)
             + BlurRow8(image, r + 1, c, k), 16)

GaussianBlur8(image) ==
  [r \in 1..Rows(image) |-> [c \in 1..Cols(image) |->
     [k \in 1..3 |-> BlurAt8(image, r, c, k)]]]

\* unsharp_mask's default amount, 1.2, in tenths
AmountTenths == 12

\* cv2.addWeighted(a, alpha, b, beta, 0) of uint8 images with alpha and beta
\* in tenths: rounded to the nearest integer and saturated
addWeighted(a, alpha, b, beta) ==
  [r \in 1..Rows(a) |-> [c \in 1..Cols(a) |->
     [k \in 1..3 |-> Clip(RoundDiv(alpha * a[r][c][k] + beta * b[r][c][k], 10))]]]

\* a slip: nothing is added to the image
unsharp_mask_Unchanged(image) == image

\* unsharp_mask(image): np.clip(...).astype(np.uint8) changes nothing of
\* what addWeighted has saturated
unsharp_mask(image) ==
  addWeighted(image, 10 + AmountTenths, GaussianBlur8(image), -AmountTenths)

\* what cv2.findHomography returns: None, or a matrix (here: a shift of dx
\* columns; dx = 0 is the identity)
NoHomography == [found |-> FALSE, dx |-> 0]
Homography(dx) == [found |-> TRUE, dx |-> dx]
Homographies == {NoHomography, Homography(0), Homography(1)}

\* cv2.warpPerspective(secondary, H, size of primary): pixels from outside
\* the source are black
warpPerspective(secondary, h) ==
  [r \in 1..Rows(secondary) |-> [c \in 1..Cols(secondary) |->
     IF c - h.dx >= 1 THEN secondary[r][c - h.dx] ELSE <<0, 0, 0>>]]

\* the files --primary and --secondary may name: what cv2.imread makes of
\* the file (None or an image) and the number of keypoints ORB finds in the
\* image; a uniform image has none
MaxFeatures == 13
NoImage == <<>>
NoFile == [loadable |-> FALSE, image |-> NoImage, features |-> 0]
Photo(img, f) == [loadable |-> TRUE, image |-> img, features |-> f]
BoardPhotos ==
  {Picture(shape, <<255, 255, 255>>, bg) :
     shape \in Shapes, bg \in {<<0, 0, 0>>, <<90, 100, 110>>}}
FeatureCounts(img) == IF IsUniform(img) THEN {0} ELSE {5, MaxFeatures}
Files == {NoFile} \cup UNION {{Photo(img, f) : f \in FeatureCounts(img)} : img \in BoardPhotos}

\* a slip: the result of cv2.imread is not looked at
load_image_Unchecked(file) == Return(file.image)

\* load_image
load_image(file) ==
  IF ~file.loadable THEN Raise("FileNotFoundError") ELSE Return(file.image)

\* the least number of matches align_secondary accepts
MinMatches == 12

DescriptorsFailed == "RuntimeError: Failed to compute ORB descriptors for alignment"
NotEnoughMatches == "RuntimeError: Not enough feature matches to compute homography"
HomographyFailed == "RuntimeError: Could not compute homography"

\* a slip: the number of matches is not looked at
align_secondary_Uncounted(secondary, features1, features2, nmatches, h) ==
  IF features1 = 0 \/ features2 = 0 THEN Raise(DescriptorsFailed)
  ELSE IF ~h.found THEN Raise(HomographyFailed)
  ELSE Return(<<warpPerspective(secondary, h), h>>)

\* align_secondary, given what the library finds: features1 and features2
\* keypoints (des is None when there are none), nmatches cross-checked
\* matches and the homography h
align_secondary(secondary, features1, features2, nmatches, h) ==
  IF features1 = 0 \/ features2 = 0 THEN Raise(DescriptorsFailed)
  ELSE IF nmatches < MinMatches THEN Raise(NotEnoughMatches)
  ELSE IF ~h.found THEN Raise(HomographyFailed)
  ELSE Return(<<warpPerspective(secondary, h), h>>)

(***************************************************************************)
(* The state of the two programs                                           *)
(***************************************************************************)
VARIABLES
  primary_file,      \* --primary: the file load_image is given
  secondary_file,    \* --secondary
  pc,                \* position in main and in blend_images
  err,               \* the uncaught exception that ended the run
  primary,           \* main's locals
  secondary,
  matches,           \* len(matches) in align_secondary
  H,
  warped_secondary,
  ls_pc,             \* position in laplacian_sharpness
  ls_gray,           \* laplacian_sharpness' locals
  ls_lap,
  ls_squared,
  ls_sharpness,
  sharp_primary,     \* blend_images' locals
  sharp_secondary,
  weight_primary,
  weight_secondary,
  blended,
  sharpened,
  twice,             \* unsharp_mask of sharpened
  debug_overlay,     \* main's overlay
  dest,              \* what became of each output file
  printed            \* the confirmation lines printed

ctl == <<pc, err>>
inputs == <<primary_file, secondary_file>>
loaded == <<primary, secondary>>
aligned == <<matches, H, warped_secondary>>
ls == <<ls_pc, ls_gray, ls_lap, ls_squared, ls_sharpness>>
maps == <<sharp_primary, sharp_secondary>>
weights == <<weight_primary, weight_secondary>>
results == <<blended, sharpened, twice, debug_overlay>>
written == <<dest, printed>>
fvars == <<ctl, inputs, loaded, aligned, ls, maps, weights, results, written>>

Artifacts == {"composite", "overlay", "homography"}
Untouched == [a \in Artifacts |-> "untouched"]


VARIABLES
  board_file,   \* --board: the file cv2.imread is given
  nodes_json,   \* --nodes-json: the entries of the file
  margin,       \* --margin
  fit_mode,     \* --fit-mode
  o_pc,         \* position in main of render_node_overlay.py
  nodes,        \* load_nodes' result
  transform,    \* compute_transform's result
  remapped,     \* transform_nodes' result
  overlay,      \* draw_overlay's result
  o_files,      \* the output files written so far
  o_err,        \* the uncaught exception that ended the run
  o_printed     \* the confirmation lines printed

ovars == <<board_file, nodes_json, margin, fit_mode, o_pc, nodes, transform,
           remapped, overlay, o_files, o_err, o_printed>>

vars == <<fvars, ovars>>

(***************************************************************************)
(* combine_board_images.py: main                                           *)
(***************************************************************************)
\* everything of a run but its inputs and its position, before main starts
Fresh ==
  /\ err = "none"
  /\ primary = NoImage /\ secondary = NoImage
  /\ matches = 0 /\ H = NoHomography /\ warped_secondary = NoImage
  /\ ls_pc = "l120"
  /\ ls_gray = <<>> /\ ls_lap = <<>> /\ ls_squared = <<>> /\ ls_sharpness = <<>>
  /\ sharp_primary = <<>> /\ sharp_secondary = <<>>
  /\ weight_primary = <<>> /\ weight_secondary = <<>>
  /\ blended = NoImage /\ sharpened = NoImage /\ twice = NoImage
  /\ debug_overlay = NoImage
  /\ dest = Untouched /\ printed = <<>>

FusionInit ==
  /\ primary_file \in Files /\ secondary_file \in Files
  /\ pc = "load_primary"
  /\ Fresh

FusionIdle ==
  /\ primary_file = NoFile /\ secondary_file = NoFile
  /\ pc = "idle"
  /\ Fresh

Abort(e) == pc' = "aborted" /\ err' = e
Goto(p) == pc' = p /\ err' = err

\* main: primary = load_image(args.primary)
PrimaryLoaded(r) ==
  IF r.err # "none" THEN Abort(r.err) /\ primary' = primary
  ELSE Goto("load_secondary") /\ primary' = r.t

LoadPrimary ==
  /\ pc = "load_primary"
  /\ PrimaryLoaded(load_image(primary_file))
  /\ UNCHANGED <<inputs, secondary, aligned, ls, maps, weights, results, written>>
  /\ UNCHANGED ovars

\* main: secondary = load_image(args.secondary)
SecondaryLoaded(r) ==
  IF r.err # "none" THEN Abort(r.err) /\ secondary' = secondary
  ELSE Goto("align") /\ secondary' = r.t

LoadSecondary ==
  /\ pc = "load_secondary"
  /\ SecondaryLoaded(load_image(secondary_file))
  /\ UNCHANGED <<inputs, primary, aligned, ls, maps, weights, results, written>>
  /\ UNCHANGED ovars

\* main: warped_secondary, H = align_secondary(primary, secondary)
Aligned(r) ==
  IF r.err # "none"
  THEN Abort(r.err) /\ warped_secondary' = warped_secondary /\ H' = H
  ELSE Goto("blend_142") /\ warped_secondary' = r.t[1] /\ H' = r.t[2]

\* cross-checked matches pair keypoints of the one image with keypoints of
\* the other one to one; RANSAC may or may not find a homography
Align ==
  /\ pc = "align"
  /\ \E nmatches \in 0..Min(primary_file.features, secondary_file.features) :
       /\ matches' = nmatches
       /\ \E h \in Homographies :
            Aligned(align_secondary(secondary, primary_file.features,
                                    secondary_file.features, nmatches, h))
  /\ UNCHANGED <<inputs, loaded, ls, maps, weights, results, written>>
  /\ UNCHANGED ovars

\* blend_images: the image of the laplacian_sharpness call under way
LsImage == IF pc = "blend_142" THEN primary ELSE warped_secondary
InLs(line) == pc \in {"blend_142", "blend_143"} /\ ls_pc = line

\* laplacian_sharpness: gray = cvtColor(...); gray = gray.astype(np.float32) / 255.0
LsGray ==
  /\ InLs("l120")
  /\ ls_gray' = GrayToFloat(cvtColor_BGR2GRAY(LsImage))
  /\ ls_pc' = "l122"
  /\ UNCHANGED <<ctl, inputs, loaded, aligned, ls_lap, ls_squared, ls_sharpness,
                 maps, weights, results, written>>
  /\ UNCHANGED ovars

\* laplacian_sharpness: lap = cv2.Laplacian(gray, cv2.CV_32F)
LsLaplacian ==
  /\ InLs("l122")
  /\ ls_lap' = Laplacian(ls_gray)
  /\ ls_pc' = "l123"
  /\ UNCHANGED <<ctl, inputs, loaded, aligned, ls_gray, ls_squared, ls_sharpness,
                 maps, weights, results, written>>
  /\ UNCHANGED ovars

\* laplacian_sharpness: lap ** 2
LsSquare ==
  /\ InLs("l123")
  /\ ls_squared' = Square(ls_lap)
  /\ ls_pc' = "l123_blur"
  /\ UNCHANGED <<ctl, inputs, loaded, aligned, ls_gray, ls_lap, ls_sharpness,
                 maps, weights, results, written>>
  /\ UNCHANGED ovars

\* laplacian_sharpness: sharpness = cv2.GaussianBlur(lap ** 2, (0, 0), sigma)
LsBlur ==
  /\ InLs("l123_blur")
  /\ ls_sharpness' = GaussianBlur(ls_squared)
  /\ ls_pc' = "l124"
  /\ UNCHANGED <<ctl, inputs, loaded, aligned, ls_gray, ls_lap, ls_squared,
                 maps, weights, results, written>>
  /\ UNCHANGED ovars

\* laplacian_sharpness: sharpness = cv2.normalize(sharpness, ...)
LsNormalize ==
  /\ InLs("l124")
  /\ ls_sharpness' = normalize(ls_sharpness)
  /\ ls_pc' = "l125"
  /\ UNCHANGED <<ctl, inputs, loaded, aligned, ls_gray, ls_lap, ls_squared,
                 maps, weights, results, written>>
  /\ UNCHANGED ovars

\* laplacian_sharpness: return sharpness + 1e-6, to blend_images' line 142 or 143
LsReturn ==
  /\ InLs("l125")
  /\ IF pc = "blend_142"
     THEN /\ sharp_primary' = AddEpsilon(ls_sharpness)
          /\ sharp_secondary' = sharp_secondary
          /\ Goto("blend_143")
     ELSE /\ sharp_secondary' = AddEpsilon(ls_sharpness)
          /\ sharp_primary' = sharp_primary
          /\ Goto("blend_145")
  /\ ls_pc' = "l120"
  /\ UNCHANGED <<inputs, loaded, aligned, ls_gray, ls_lap, ls_squared, ls_sharpness,
                 weights, results, written>>
  /\ UNCHANGED ovars

\* blend_images: weight_primary = ...; weight_secondary = 1.0 - weight_primary
Weigh ==
  /\ pc = "blend_145"
  /\ weight_primary' = WeightPrimary(sharp_primary, sharp_secondary)
  /\ weight_secondary' = WeightSecondary(weight_primary')
  /\ Goto("blend_148")
  /\ UNCHANGED <<inputs, loaded, aligned, ls, maps, results, written>>
  /\ UNCHANGED ovars

\* blend_images: blended = ...; return blended.astype(np.uint8)
Blend ==
  /\ pc = "blend_148"
  /\ blended' = BlendSum(primary, warped_secondary, weight_primary, weight_secondary)
  /\ Goto("sharpen")
  /\ UNCHANGED <<inputs, loaded, aligned, ls, maps, weights, sharpened, twice,
                 debug_overlay, written>>
  /\ UNCHANGED ovars

\* main: sharpened = unsharp_mask(blended)
Sharpen ==
  /\ pc = "sharpen"
  /\ sharpened' = unsharp_mask(blended)
  /\ Goto("write_composite")
  /\ UNCHANGED <<inputs, loaded, aligned, ls, maps, weights, blended, twice,
                 debug_overlay, written>>
  /\ UNCHANGED ovars

\* unsharp_mask applied to its own result
SharpenAgain ==
  /\ pc = "write_composite"
  /\ twice' = unsharp_mask(sharpened)
  /\ Goto("sharpened_twice")
  /\ UNCHANGED <<inputs, loaded, aligned, ls, maps, weights, blended, sharpened,
                 debug_overlay, written>>
  /\ UNCHANGED ovars

\* main: args.output.parent.mkdir(...); cv2.imwrite(str(args.output), sharpened).
\* mkdir raises on a directory it cannot create; cv2.imwrite returns False on
\* a file it cannot write, and main does not look at what it returns.
WriteComposite ==
  /\ pc = "write_composite"
  /\ \E d \in {"written", "unwritable", "uncreatable"} :
       /\ dest' = [dest EXCEPT !["composite"] = d]
       /\ IF d = "uncreatable" THEN Abort("OSError") ELSE Goto("write_overlay")
  /\ UNCHANGED <<inputs, loaded, aligned, ls, maps, weights, results, printed>>
  /\ UNCHANGED ovars

\* main: debug_dir.mkdir(...); overlay = cv2.addWeighted(primary, 0.5,
\* warped_secondary, 0.5, 0); cv2.imwrite(..., overlay)
WriteDebugOverlay ==
  /\ pc = "write_overlay"
  /\ \E d \in {"written", "unwritable", "uncreatable"} :
       /\ dest' = [dest EXCEPT !["overlay"] = d]
       /\ IF d = "uncreatable"
          THEN Abort("OSError") /\ debug_overlay' = debug_overlay
          ELSE /\ Goto("save_homography")
               /\ debug_overlay' = addWeighted(primary, 5, warped_secondary, 5)
  /\ UNCHANGED <<inputs, loaded, aligned, ls, maps, weights, blended, sharpened,
                 twice, printed>>
  /\ UNCHANGED ovars

\* main: np.save(debug_dir / "homography.npy", H); np.save raises on a file
\* it cannot write
SaveHomography ==
  /\ pc = "save_homography"
  /\ \E d \in {"written", "unwritable"} :
       /\ dest' = [dest EXCEPT !["homography"] = d]
       /\ IF d = "unwritable" THEN Abort("OSError") ELSE Goto("print")
  /\ UNCHANGED <<inputs, loaded, aligned, ls, maps, weights, results, printed>>
  /\ UNCHANGED ovars

\* main: the two prints
PrintConfirmations ==
  /\ pc = "print"
  /\ printed' = <<"Blended board saved to", "Debug overlay saved to">>
  /\ Goto("done")
  /\ UNCHANGED <<inputs, loaded, aligned, ls, maps, weights, results, dest>>
  /\ UNCHANGED ovars

(***************************************************************************)
(* render_node_overlay.py: main                                            *)
(***************************************************************************)
OverlayStart ==
  /\ board_file \in Boards
  /\ nodes_json \in NodeFiles
  /\ margin \in Margins
  /\ fit_mode \in FitModes
  /\ o_pc = "start"
  /\ nodes = <<>>
  /\ transform = <<>>
  /\ remapped = <<>>
  /\ overlay = <<>>
  /\ o_files = {}
  /\ o_err = "none"
  /\ o_printed = <<>>

OverlayIdle ==
  /\ board_file = NoBoard
  /\ nodes_json = <<>>
  /\ margin = 0
  /\ fit_mode = "uniform"
  /\ o_pc = "idle"
  /\ nodes = <<>>
  /\ transform = <<>>
  /\ remapped = <<>>
  /\ overlay = <<>>
  /\ o_files = {}
  /\ o_err = "none"
  /\ o_printed = <<>>

OAbort(e) == o_pc' = "aborted" /\ o_err' = e

\* main: board = cv2.imread(...); if board is None: raise FileNotFoundError
ReadBoard ==
  /\ o_pc = "start"
  /\ IF ~board_file.loadable
     THEN OAbort("FileNotFoundError")
     ELSE o_pc' = "board_read" /\ o_err' = o_err
  /\ UNCHANGED <<board_file, nodes_json, margin, fit_mode, nodes, transform,
                 remapped, overlay, o_files, o_printed>>
  /\ UNCHANGED fvars

\* main: nodes = load_nodes(args.nodes_json)
LoadNodes ==
  /\ o_pc = "board_read"
  /\ nodes' = load_nodes(nodes_json)
  /\ o_pc' = "nodes_loaded"
  /\ UNCHANGED <<board_file, nodes_json, margin, fit_mode, transform, remapped,
                 overlay, o_files, o_err, o_printed>>
  /\ UNCHANGED fvars

\* main: height, width = board.shape[:2]; compute_transform(...)
TransformComputed(r) ==
  IF r.err # "none"
  THEN OAbort(r.err) /\ transform' = transform
  ELSE o_pc' = "transform_computed" /\ transform' = r.t /\ o_err' = o_err

ComputeTransform ==
  /\ o_pc = "nodes_loaded"
  /\ TransformComputed(compute_transform(nodes, board_file.width, board_file.height,
                                         F64(margin), fit_mode))
  /\ UNCHANGED <<board_file, nodes_json, margin, fit_mode, nodes, remapped,
                 overlay, o_files, o_printed>>
  /\ UNCHANGED fvars

\* main: remapped = transform_nodes(nodes, scale_x, scale_y, offset_x, offset_y)
TransformNodes ==
  /\ o_pc = "transform_computed"
  /\ remapped' = transform_nodes(nodes, transform[1], transform[2], transform[3], transform[4])
  /\ o_pc' = "nodes_remapped"
  /\ UNCHANGED <<board_file, nodes_json, margin, fit_mode, nodes, transform,
                 overlay, o_files, o_err, o_printed>>
  /\ UNCHANGED fvars

\* main: draw_overlay, mkdir, cv2.imwrite.  mkdir raises on a path it cannot
\* create; cv2.imwrite returns False on a file it cannot write, and main does
\* not look at what it returns.
WriteOverlay ==
  /\ o_pc = "nodes_remapped"
  /\ overlay' = draw_overlay(remapped)
  /\ \E outcome \in {"written", "returns_false", "mkdir_raises"} :
       CASE outcome = "written" ->
              o_files' = o_files \cup {"output_image"} /\ o_pc' = "image_done" /\ o_err' = o_err
         [] outcome = "returns_false" ->
              o_files' = o_files /\ o_pc' = "image_done" /\ o_err' = o_err
         [] outcome = "mkdir_raises" ->
              o_files' = o_files /\ OAbort("OSError")
  /\ UNCHANGED <<board_file, nodes_json, margin, fit_mode, nodes, transform,
                 remapped, o_printed>>
  /\ UNCHANGED fvars

\* main: save_scaled_json(...) and the two prints
SaveJson ==
  /\ o_pc = "image_done"
  /\ \E ok \in BOOLEAN :
       IF ok
       THEN /\ o_files' = o_files \cup {"output_json"}
            /\ o_printed' = <<"Overlay written to", "Scaled coordinates saved to">>
            /\ o_pc' = "done"
            /\ o_err' = o_err
       ELSE /\ OAbort("OSError")
            /\ UNCHANGED <<o_files, o_printed>>
  /\ UNCHANGED <<board_file, nodes_json, margin, fit_mode, nodes, transform,
                 remapped, overlay>>
  /\ UNCHANGED fvars

(***************************************************************************)
(* Specifications                                                          *)
(***************************************************************************)
\* a run of combine_board_images.py
Init == FusionInit /\ OverlayIdle

Next ==
  \/ LoadPrimary
  \/ LoadSecondary
  \/ Align
  \/ LsGray
  \/ LsLaplacian
  \/ LsSquare
  \/ LsBlur
  \/ LsNormalize
  \/ LsReturn
  \/ Weigh
  \/ Blend
  \/ Sharpen
  \/ WriteComposite
  \/ WriteDebugOverlay
  \/ SaveHomography
  \/ PrintConfirmations

Spec == Init /\ [][Next]_vars

\* blend_images(primary, secondary) of any two images
BlendInit ==
  /\ primary_file = NoFile /\ secondary_file = NoFile
  /\ pc = "blend_142"
  /\ err = "none"
  /\ primary \in BoardPhotos /\ secondary = NoImage
  /\ matches = 0 /\ H = NoHomography /\ warped_secondary \in BoardPhotos
  /\ ls_pc = "l120"
  /\ ls_gray = <<>> /\ ls_lap = <<>> /\ ls_squared = <<>> /\ ls_sharpness = <<>>
  /\ sharp_primary = <<>> /\ sharp_secondary = <<>>
  /\ weight_primary = <<>> /\ weight_secondary = <<>>
  /\ blended = NoImage /\ sharpened = NoImage /\ twice = NoImage
  /\ debug_overlay = NoImage
  /\ dest = Untouched /\ printed = <<>>
  /\ OverlayIdle

BlendNext ==
  \/ LsGray
  \/ LsLaplacian
  \/ LsSquare
  \/ LsBlur
  \/ LsNormalize
  \/ LsReturn
  \/ Weigh
  \/ Blend

SpecBlend == BlendInit /\ [][BlendNext]_vars

\* unsharp_mask(image) of any image, and of its own result
SharpenInit ==
  /\ primary_file = NoFile /\ secondary_file = NoFile
  /\ pc = "sharpen"
  /\ err = "none"
  /\ primary = NoImage /\ secondary = NoImage
  /\ matches = 0 /\ H = NoHomography /\ warped_secondary = NoImage
  /\ ls_pc = "l120"
  /\ ls_gray = <<>> /\ ls_lap = <<>> /\ ls_squared = <<>> /\ ls_sharpness = <<>>
  /\ sharp_primary = <<>> /\ sharp_secondary = <<>>
  /\ weight_primary = <<>> /\ weight_secondary = <<>>
  /\ blended \in Images /\ sharpened = NoImage /\ twice = NoImage
  /\ debug_overlay = NoImage
  /\ dest = Untouched /\ printed = <<>>
  /\ OverlayIdle

SharpenNext ==
  \/ Sharpen
  \/ SharpenAgain

SpecSharpen == SharpenInit /\ [][SharpenNext]_vars

\* a run of render_node_overlay.py
OverlayInit == OverlayStart /\ FusionIdle

OverlayNext ==
  \/ ReadBoard
  \/ LoadNodes
  \/ ComputeTransform
  \/ TransformNodes
  \/ WriteOverlay
  \/ SaveJson

SpecOverlay == OverlayInit /\ [][OverlayNext]_vars

(***************************************************************************)
(* Properties of the board fusion                                          *)
(***************************************************************************)
\* the stages of main: load primary, load secondary, align, blend, sharpen,
\* write, then the confirmations
StageOf(p) ==
  CASE p = "load_primary" -> 1
    [] p = "load_secondary" -> 2
    [] p = "align" -> 3
    [] p \in {"blend_142", "blend_143", "blend_145", "blend_148"} -> 4
    [] p = "sharpen" -> 5
    [] p \in {"write_composite", "write_overlay", "save_homography"} -> 6
    [] p = "print" -> 7
    [] OTHER -> 8

BothHaveFeatures == primary_file.features > 0 /\ secondary_file.features > 0

C1_Step ==
  /\ pc' # pc => pc' = "aborted" \/ StageOf(pc') \in {StageOf(pc), StageOf(pc) + 1}
  /\ err' # "none" => pc' = "aborted"
  /\ pc = "aborted" => UNCHANGED vars
  /\ pc = "load_primary" /\ ~primary_file.loadable => pc' = "aborted"
  /\ pc = "load_secondary" /\ ~secondary_file.loadable => pc' = "aborted"
  /\ pc = "align" /\ (~BothHaveFeatures \/ matches' < MinMatches \/ ~H'.found)
       => pc' = "aborted"
  /\ dest' # dest => StageOf(pc) = 6
  /\ (\E a \in Artifacts : dest'[a] = "written") =>
       /\ primary_file.loadable /\ secondary_file.loadable
       /\ BothHaveFeatures /\ matches' >= MinMatches /\ H'.found

\* C1: every step of main moves to the same or the next stage or aborts the
\* run; a stage that fails aborts it, nothing happens after an abort, and an
\* artifact is written only in the write stage of a run whose two loads and
\* alignment succeeded.
C1_StagesInOrder == [][C1_Step]_vars

C1_Witness == pc = "done" /\ \A a \in Artifacts : dest[a] = "written"

\* align_secondary has run
AlignRan ==
  /\ pc \notin {"idle", "load_primary", "load_secondary", "align"}
  /\ err # "FileNotFoundError"

NeitherReturned == warped_secondary = NoImage /\ ~H.found

\* C2 as claimed: with fewer than 12 cross-checked matches, two blank images
\* included, align_secondary fails with the insufficient-matches error and
\* returns neither a warped image nor a homography.
C2_AsClaimed ==
  AlignRan /\ matches < MinMatches =>
    pc = "aborted" /\ err = NotEnoughMatches /\ NeitherReturned

\* C2, amended: with fewer than 12 cross-checked matches align_secondary
\* raises RuntimeError and returns nothing; the error is the
\* insufficient-matches one when both images yield descriptors, and the
\* descriptor one when an image yields no features at all (a blank image).
C2_ByCause ==
  AlignRan /\ matches < MinMatches =>
    /\ pc = "aborted" /\ NeitherReturned
    /\ err = IF BothHaveFeatures THEN NotEnoughMatches ELSE DescriptorsFailed

C2_Witness ==
  /\ AlignRan /\ matches = MinMatches - 1
  /\ err = NotEnoughMatches /\ NeitherReturned

\* C3: if the composite or the debug overlay cannot be written, the run ends
\* with an I/O error; the confirmation lines are printed only when all three
\* artifacts were written.
C3_AsClaimed ==
  /\ (\E a \in {"composite", "overlay"} : dest[a] \in {"unwritable", "uncreatable"})
       => pc = "aborted" /\ err = "OSError"
  /\ printed # <<>> => \A a \in Artifacts : dest[a] = "written"

Pixels(img) == (1..Rows(img)) \X (1..Cols(img))

WeightsAt(wp, ws, sp, ss) ==
  /\ FAdd(FloatBits, wp, ws) = F32(1)
  /\ XLe(Zero, wp) /\ XLe(wp, F32(1))
  /\ XLe(Zero, ws) /\ XLe(ws, F32(1))
  /\ XLt(Zero, FAdd(FloatBits, sp, ss))

\* C5: at every pixel weight_primary + weight_secondary is 1, both weights are
\* in [0, 1] and sharp_primary + sharp_secondary is positive.
C5_Weights ==
  weight_primary # <<>> =>
    \A px \in Pixels(primary) :
      WeightsAt(weight_primary[px[1]][px[2]], weight_secondary[px[1]][px[2]],
                sharp_primary[px[1]][px[2]], sharp_secondary[px[1]][px[2]])

C5_Witness ==
  /\ weight_primary # <<>>
  /\ \E px \in Pixels(primary) :
       /\ XLt(Zero, weight_primary[px[1]][px[2]])
       /\ XLt(weight_primary[px[1]][px[2]], [s |-> 0, m |-> <<1>>, e |-> -10])

\* C6: two images of identical content blend to that content.
C6_SameContent ==
  blended # NoImage /\ primary = warped_secondary => blended = primary

C6_Witness ==
  /\ blended # NoImage /\ primary = warped_secondary
  /\ ~IsUniform(primary) /\ blended = primary

InUnit(map) ==
  \A v \in MapValues(map) : XLe(Epsilon, v) /\ XLe(v, XAdd(F32(1), Epsilon))

SameSize(map, img) == Rows(map) = Rows(img) /\ Cols(map) = Cols(img)

\* C7: every value of a map laplacian_sharpness returns is in
\* [epsilon, 1 + epsilon], epsilon the float32 1e-6, and the map has the
\* height and width of the image.
C7_Range ==
  /\ sharp_primary # <<>> => InUnit(sharp_primary) /\ SameSize(sharp_primary, primary)
  /\ sharp_secondary # <<>> =>
       InUnit(sharp_secondary) /\ SameSize(sharp_secondary, warped_secondary)

C7_Witness ==
  /\ sharp_secondary # <<>> /\ IsUniform(primary)
  /\ MapValues(sharp_primary) = {Epsilon}
  /\ FAdd(FloatBits, F32(1), Epsilon) \in MapValues(sharp_secondary)

Channels(img) == (1..Rows(img)) \X (1..Cols(img)) \X (1..3)

InByteRange(img) == \A ch \in Channels(img) : img[ch[1]][ch[2]][ch[3]] \in 0..255

\* a channel value unsharp_mask leaves alone: it equals its blurred value,
\* or it is saturated
Settled(img) ==
  \A ch \in Channels(img) :
    \/ img[ch[1]][ch[2]][ch[3]] \in {0, 255}
    \/ img[ch[1]][ch[2]][ch[3]] = BlurAt8(img, ch[1], ch[2], ch[3])

\* C8: unsharp_mask is not idempotent: applied to its own result it changes
\* it, unless every channel value of the result is saturated or equal to its
\* blurred value; all values stay in [0, 255].
C8_NotIdempotent ==
  twice # NoImage =>
    /\ InByteRange(sharpened) /\ InByteRange(twice)
    /\ twice = sharpened <=> Settled(sharpened)

C8_Witness == twice # NoImage /\ twice # sharpened /\ InByteRange(twice)

(***************************************************************************)
(* Properties of the node overlay                                          *)
(***************************************************************************)
Width == board_file.width
Height == board_file.height
UsableW == Width - 2 * margin
UsableH == Height - 2 * margin

\* compute_transform has run (and returned or raised)
TransformRan ==
  \/ o_pc \in {"transform_computed", "nodes_remapped", "image_done", "done"}
  \/ o_pc = "aborted" /\ o_err \in {"ValueError", "ZeroDivisionError"}
  \/ o_pc = "aborted" /\ o_err = "OSError"

\* transform_nodes has run
NodesRemapped == o_pc \in {"nodes_remapped", "image_done", "done"}

FileXs == {nodes_json[i].x : i \in 1..Len(nodes_json)}
FileYs == {nodes_json[i].y : i \in 1..Len(nodes_json)}
SpansX(lo, hi) ==
  /\ F64(lo) \in FileXs /\ F64(hi) \in FileXs
  /\ \A v \in FileXs : XLe(F64(lo), v) /\ XLe(v, F64(hi))
RangeNonZero(vs) == \E u \in vs, v \in vs : u # v

\* the case C4 is about
C4Case ==
  /\ board_file.loadable /\ Width = 1000
  /\ margin = 0 /\ fit_mode = "uniform"
  /\ SpansX(0, 100)

C4Mapping ==
  /\ TransformRan => o_err # "ZeroDivisionError"
  /\ o_pc = "transform_computed" =>
       transform[1] = FDiv(DoubleBits, F64(UsableW), F64(100))
  /\ NodesRemapped =>
       \A i \in 1..Len(nodes) :
         /\ nodes[i].x = F64(0) => remapped[i].x = F64(margin)
         /\ nodes[i].x = F64(100) => remapped[i].x = F64(Width - margin)

\* C4 as claimed: in uniform mode with margin 0, width 1000 and x spanning
\* [0,100], the scale is usable_width/100 and x = 0, x = 100 land exactly on
\* the margin boundaries, whatever the height and the y range are.
C4_AsClaimed == C4Case => C4Mapping

\* the width is the binding constraint of min(usable_w/src_width, usable_h/src_height)
WidthBinds ==
  /\ RangeNonZero(FileYs)
  /\ \A u \in FileYs, v \in FileYs :
       XLt(u, v) => XLe(FDiv(DoubleBits, F64(UsableW), F64(100)),
                        FDiv(DoubleBits, F64(UsableH), FSub(DoubleBits, v, u)))

\* C4, amended: the same, provided the y range is non-zero and
\* usable_height / y_range >= usable_width / 100.
C4_WidthBound == C4Case /\ WidthBinds => C4Mapping

C4_Witness ==
  /\ C4Case /\ WidthBinds /\ o_pc = "nodes_remapped"
  /\ \E i \in 1..Len(nodes) : nodes[i].x = F64(100) /\ remapped[i].x = F64(1000)

C9Raises ==
  UsableW <= 0 \/ UsableH <= 0 => o_err = "ValueError" /\ o_files = {}

C9RawIdentity ==
  UsableW > 0 /\ UsableH > 0 /\ fit_mode = "raw" =>
    /\ o_err # "ValueError" /\ o_err # "ZeroDivisionError"
    /\ o_pc # "aborted" => transform = <<F64(1), F64(1), Zero, Zero>>
    /\ NodesRemapped => remapped = nodes

\* C9 as claimed: ValueError whenever a usable dimension is <= 0, in every
\* fit mode and before anything is written; with both usable dimensions
\* positive, raw mode returns the identity transform.
C9_AsClaimed == TransformRan => C9Raises /\ C9RawIdentity

\* What the code does guarantee: the raw-mode identity for a non-empty node
\* list (xs.min() of an empty array raises ValueError before the mode is
\* looked at).
C9_NonEmpty == TransformRan => C9Raises /\ (nodes # <<>> => C9RawIdentity)

C9_Witness ==
  /\ o_pc = "aborted" /\ o_err = "ValueError" /\ fit_mode = "raw"
  /\ nodes # <<>> /\ UsableW <= 0

C9_WitnessRaw ==
  /\ o_pc = "nodes_remapped" /\ fit_mode = "raw" /\ Len(nodes) = 2 /\ remapped = nodes

XAbs(x) == IF IsNaN(x) \/ IsZero(x) THEN x ELSE [x EXCEPT !.s = 0]

Within(v, lo, hi, tol) == XLe(XSub(lo, tol), v) /\ XLe(v, XAdd(hi, tol))
Near(u, v, tol) == Within(u, v, v, tol)

RemXs == {remapped[i].x : i \in 1..Len(remapped)}
RemYs == {remapped[i].y : i \in 1..Len(remapped)}

\* The rounding error of scale * x + offset as the code computes it is a
\* few units in the last place of its terms: at most
\* 2^-50 * (|scale| * max|coordinate| + |offset| + |margin| + size).
RoundingOf(scale, coords, offset, size) ==
  XMul([s |-> 0, m |-> <<1>>, e |-> -50],
       XAdd(XAdd(XMul(XAbs(scale), Greatest({XAbs(c) : c \in coords})), XAbs(offset)),
            XAdd(XAbs(F64(margin)), F64(size))))

RoundingX == RoundingOf(transform[1], {nodes[i].x : i \in 1..Len(nodes)}, transform[3], Width)
RoundingY == RoundingOf(transform[2], {nodes[i].y : i \in 1..Len(nodes)}, transform[4], Height)

\* the case C10 is about: uniform or stretch, transform_nodes has run (so
\* the usable size is positive and the ranges are non-zero)
C10Case == NodesRemapped /\ fit_mode \in {"uniform", "stretch"}

C10Box(tolx, toly) ==
  /\ \A v \in RemXs : Within(v, F64(margin), F64(Width - margin), tolx)
  /\ \A v \in RemYs : Within(v, F64(margin), F64(Height - margin), toly)
  /\ fit_mode = "stretch" =>
       /\ Near(Least(RemXs), F64(margin), tolx)
       /\ Near(Greatest(RemXs), F64(Width - margin), tolx)
       /\ Near(Least(RemYs), F64(margin), toly)
       /\ Near(Greatest(RemYs), F64(Height - margin), toly)
  /\ fit_mode = "uniform" =>
       /\ transform[1] = transform[2]
       /\ Near(XAdd(Least(RemXs), Greatest(RemXs)), F64(Width), XAdd(tolx, tolx))
       /\ Near(XAdd(Least(RemYs), Greatest(RemYs)), F64(Height), XAdd(toly, toly))

\* C10 as claimed: in uniform and stretch mode every remapped node lies in
\* [margin, width - margin] x [margin, height - margin]; stretch maps the
\* bounding box exactly onto that rectangle, uniform centres it.
C10_AsClaimed == C10Case => C10Box(Zero, Zero)

\* C10, amended: the same up to the floating-point rounding error of
\* scale * x + offset; the equal scale on both axes in uniform mode is exact.
C10_UpToRounding == C10Case => C10Box(RoundingX, RoundingY)

C10_Witness ==
  /\ C10Case /\ fit_mode = "stretch" /\ margin = 12 /\ Len(remapped) = 2
  /\ Least(RemXs) = F64(12) /\ Greatest(RemXs) = F64(Width - 12)
====
